---- MODULE Spec2Model ----
(***************************************************************************)
(* Resume scoring service (src/app.py): an uploaded document is routed by  *)
(* its file extension to a text extractor, the text is scored by an        *)
(* external model service (or by a fixed mock when no key is configured),  *)
(* the reply is turned into a ResumeScore and handed back by one of two    *)
(* entry points: the HTTP endpoint or the interactive widget.              *)
(***************************************************************************)
EXTENDS Integers, Sequences, FiniteSets, TLC

VARIABLES GROQ_API_KEY, LLM_MODEL, PdfReaderCtx, req

vars == <<GROQ_API_KEY, LLM_MODEL, PdfReaderCtx, req>>

(* ------------------------------ bounds --------------------------------- *)

\* longest byte content of an uploaded plain document
MaxBytes == 2
\* number of requests in flight in the concurrent specification
NumRequests == 2

(* ------------------------- strings and bytes --------------------------- *)

\* str.lower() on one character
LowerChar(c) ==
    CASE c = "P" -> "p" [] c = "D" -> "d" [] c = "F" -> "f" [] c = "O" -> "o"
      [] c = "C" -> "c" [] c = "X" -> "x" [] c = "T" -> "t" [] c = "A" -> "a"
      [] OTHER -> c

\* str.lower()
Lower(s) == [i \in 1..Len(s) |-> LowerChar(s[i])]

\* str.split("."): the segments between the dots, at least one
RECURSIVE SplitDot(_)
SplitDot(s) ==
    IF \A i \in 1..Len(s) : s[i] # "."
    THEN <<s>>
    ELSE LET i == CHOOSE k \in 1..Len(s) :
                      s[k] = "." /\ \A j \in 1..(k-1) : s[j] # "."
         IN  <<SubSeq(s, 1, i-1)>> \o SplitDot(SubSeq(s, i+1, Len(s)))

\* file.filename.split(".")[-1].lower()
FileExtensionNoLower(filename) ==
    LET parts == SplitDot(filename) IN parts[Len(parts)]
FileExtension(filename) ==
    LET parts == SplitDot(filename) IN Lower(parts[Len(parts)])

\* the extractor chosen by the if/elif chain on the extension
ExtractorFor(ext) ==
    IF ext = <<"p","d","f">> THEN "pdf"
    ELSE IF ext \in {<<"d","o","c","x">>, <<"d","o","c">>} THEN "docx"
    ELSE IF ext = <<"t","x","t">> THEN "txt"
    ELSE "none"

\* bytes.decode("utf-8"), strict: the code points, or a failure.
\* One-byte (00..7F) and two-byte (C2..DF 80..BF) sequences are decoded;
\* every other lead byte met here is invalid.
RECURSIVE Utf8Decode(_)
Utf8Decode(b) ==
    IF b = <<>> THEN [ok |-> TRUE, text |-> <<>>]
    ELSE IF b[1] < 128
    THEN LET rest == Utf8Decode(Tail(b))
         IN  [ok |-> rest.ok, text |-> <<b[1]>> \o rest.text]
    ELSE IF b[1] >= 194 /\ b[1] <= 223 /\ Len(b) >= 2 /\ b[2] >= 128 /\ b[2] <= 191
    THEN LET rest == Utf8Decode(SubSeq(b, 3, Len(b)))
         IN  [ok |-> rest.ok,
              text |-> <<(b[1] - 192) * 64 + (b[2] - 128)>> \o rest.text]
    ELSE [ok |-> FALSE, text |-> <<>>]

\* text-mode read (open(..., 'r')): universal newlines, CR LF and CR become LF
RECURSIVE TranslateNewlines(_)
TranslateNewlines(s) ==
    IF s = <<>> THEN <<>>
    ELSE IF s[1] = 13
    THEN IF Len(s) >= 2 /\ s[2] = 10
         THEN <<10>> \o TranslateNewlines(SubSeq(s, 3, Len(s)))
         ELSE <<10>> \o TranslateNewlines(Tail(s))
    ELSE <<s[1]>> \o TranslateNewlines(Tail(s))

\* "".join / "\n".join over the parts of a container document
RECURSIVE JoinParts(_, _)
JoinParts(parts, sep) ==
    IF parts = <<>> THEN <<>>
    ELSE IF Len(parts) = 1 THEN parts[1]
    ELSE parts[1] \o sep \o JoinParts(Tail(parts), sep)

(* ------------------------------ inputs --------------------------------- *)

\* declared file names: a.pdf a.PDF a.docx a.Doc a.txt a.x.TXT a.exe a.txt.
\* and the names without any dot: pdf txt ax
Names ==
    { <<"a",".","p","d","f">>, <<"a",".","P","D","F">>,
      <<"a",".","d","o","c","x">>, <<"a",".","D","o","c">>,
      <<"a",".","t","x","t">>, <<"a",".","x",".","T","X","T">>,
      <<"a",".","e","x","e">>, <<"a",".","t","x","t",".">>,
      <<"p","d","f">>, <<"t","x","t">>, <<"a","x">> }

\* byte values used in uploads: 'A', CR, and the two bytes of U+00E9
ByteAlphabet == {65, 13, 195, 169}

ByteSeqs == UNION { [1..n -> ByteAlphabet] : n \in 0..MaxBytes }

\* an uploaded file: its bytes, the container format the bytes really are
\* ("none" for a plain file) and, for a container, its pages or paragraphs
PlainDocs == { [bytes |-> b, container |-> "none", parts |-> <<>>] : b \in ByteSeqs }
PdfDoc == [bytes |-> <<37>>, container |-> "pdf", parts |-> << <<65>>, <<66>> >>]
DocxDoc == [bytes |-> <<80, 195>>, container |-> "docx", parts |-> << <<72>>, <<87>> >>]
Docs == PlainDocs \cup {PdfDoc, DocxDoc}

Entries == {"api", "widget"}

\* values of the "score" member of a provider reply
IntScore(n) == [t |-> "int", n |-> n]
TextScore == [t |-> "str", n |-> 0]
NoScore == [t |-> "missing", n |-> 0]
ReplyScores == {IntScore(82), IntScore(150), IntScore(0 - 5), TextScore, NoScore}

\* values of the "feedback" member of a provider reply
FeedbackKeys == {"strengths", "weaknesses", "improvements"}
StrList(items) == [t |-> "list", items |-> items]
IntValue == [t |-> "int", items |-> <<>>]
EmptyDict == [k \in {} |-> IntValue]
Dict(d) == [t |-> "dict", d |-> d]
FullFeedback ==
    Dict([k \in FeedbackKeys |->
            CASE k = "strengths" -> StrList(<<"a">>)
              [] k = "weaknesses" -> StrList(<<>>)
              [] OTHER -> StrList(<<"b", "c">>)])
PartialFeedback == Dict([k \in {"strengths"} |-> StrList(<<"a">>)])
MistypedFeedback ==
    Dict([k \in FeedbackKeys |->
            IF k = "weaknesses" THEN IntValue ELSE StrList(<<"a">>)])
ListFeedback == [t |-> "list", d |-> EmptyDict]
NoFeedback == [t |-> "missing", d |-> EmptyDict]
ReplyFeedbacks ==
    {FullFeedback, PartialFeedback, MistypedFeedback, ListFeedback, NoFeedback}

\* what the model service does with a call: the call fails, or it answers
\* with text that is not JSON, or with a JSON object
TransportFailure == [t |-> "error", score |-> NoScore, feedback |-> NoFeedback]
NotJson == [t |-> "text", score |-> NoScore, feedback |-> NoFeedback]
Json(s, f) == [t |-> "json", score |-> s, feedback |-> f]
Replies ==
    {TransportFailure, NotJson}
        \cup { Json(s, f) : s \in ReplyScores, f \in ReplyFeedbacks }

(* --------------------------- request records --------------------------- *)

NoReply == [t |-> "none", score |-> NoScore, feedback |-> NoFeedback]
NoResult == [t |-> "none", score |-> NoScore, feedback |-> NoFeedback]
Pending == [kind |-> "pending", status |-> 0, cause |-> "", score |-> NoScore,
            feedback |-> NoFeedback]

\* class ResumeScore(BaseModel): score: int, feedback: Dict[str, Any]
ResumeScore(s, f) == [t |-> "ResumeScore", score |-> s, feedback |-> f]

\* a request as it arrives at an entry point; provider is what the model
\* service will do with this request's call, should the call be made
NewRequest(entry, filename, doc, provider) ==
    [entry |-> entry, filename |-> filename, doc |-> doc, provider |-> provider,
     pc |-> "received", extractor |-> "none", text |-> <<>>, prompt |-> <<>>,
     calls |-> 0, sent |-> "", response |-> NoReply, result |-> NoResult,
     outcome |-> Pending, trace |-> <<>>]

\* an exception leaves the request. The HTTP endpoint answers with the status
\* of the HTTPException (500 for any other exception); the widget catches every
\* exception and shows a message with no score
Raise(q, status, cause) ==
    [q EXCEPT !.pc = "done",
              !.outcome = [kind |-> "error",
                           status |-> IF q.entry = "api" THEN status ELSE 0,
                           cause |-> cause, score |-> NoScore,
                           feedback |-> NoFeedback],
              !.trace = Append(@, "response")]

Extracted(q, text) ==
    [q EXCEPT !.pc = "extracted", !.text = text]

(* ------------------------------ the steps ------------------------------ *)

\* file_content.decode("utf-8") of the endpoint's txt branch
DecodeTextIgnore(bytes) == [ok |-> TRUE, text |-> Utf8Decode(bytes).text]
DecodeText(bytes) == Utf8Decode(bytes)

\* extract_text_from_resume with extract_text_from_pdf / _docx.
\* ctx: whether the installed PdfReader can be used in a with statement
ExtractApi(q0, ctx) ==
    LET x == ExtractorFor(FileExtension(q0.filename))
        q == [q0 EXCEPT !.extractor = x, !.trace = Append(@, "extraction")]
    IN  CASE x = "pdf" ->
               IF ctx /\ q.doc.container = "pdf"
               THEN Extracted(q, JoinParts(q.doc.parts, <<>>))
               ELSE Raise(q, 400, "extraction")
          [] x = "docx" ->
               IF q.doc.container = "docx"
               THEN Extracted(q, JoinParts(q.doc.parts, <<10>>))
               ELSE Raise(q, 400, "extraction")
          [] x = "txt" ->
               LET d == DecodeText(q.doc.bytes)
               IN  IF d.ok THEN Extracted(q, d.text) ELSE Raise(q, 500, "decode")
          [] OTHER -> Raise(q, 400, "unsupported")

\* the extraction part of gradio_score_resume
ExtractWidget(q0) ==
    LET x == ExtractorFor(FileExtension(q0.filename))
        q == [q0 EXCEPT !.extractor = x, !.trace = Append(@, "extraction")]
    IN  CASE x = "pdf" ->
               IF q.doc.container = "pdf"
               THEN Extracted(q, JoinParts(q.doc.parts, <<>>))
               ELSE Raise(q, 0, "extraction")
          [] x = "docx" ->
               IF q.doc.container = "docx"
               THEN Extracted(q, JoinParts(q.doc.parts, <<10>>))
               ELSE Raise(q, 0, "extraction")
          [] x = "txt" ->
               LET d == Utf8Decode(q.doc.bytes)
               IN  IF d.ok THEN Extracted(q, TranslateNewlines(d.text))
                   ELSE Raise(q, 0, "decode")
          [] OTHER -> Raise(q, 0, "unsupported")

\* the mock returned by score_resume when GROQ_API_KEY is empty
MockResult ==
    ResumeScore(IntScore(75),
        Dict([k \in FeedbackKeys |->
            CASE k = "strengths" ->
                   StrList(<<"Strong education section", "Good experience details">>)
              [] k = "weaknesses" ->
                   StrList(<<"Missing quantifiable achievements", "Too verbose">>)
              [] OTHER ->
                   StrList(<<"Add metrics to achievements", "Be more concise",
                             "Consider adding skills section">>)]))

MockStepAfterCall(q) ==
    [q EXCEPT !.pc = "validated", !.result = MockResult, !.calls = @ + 1]
MockStep(q) == [q EXCEPT !.pc = "validated", !.result = MockResult]

\* the f-string prompt: the instructions (written 0) followed by the text
PromptStep(q) ==
    [q EXCEPT !.pc = "prompted", !.prompt = <<0>> \o q.text,
              !.trace = Append(@, "prompt")]

\* groq_client.chat.completions.create(...): one call; a failure is caught
\* and raised as HTTPException(500)
CallStepRetry(q, model) ==
    LET c == [q EXCEPT !.calls = @ + 1, !.sent = model,
                       !.trace = Append(@, "call")]
    IN  IF q.provider.t = "error"
        THEN IF q.calls = 0 THEN c ELSE Raise(c, 500, "transport")
        ELSE [c EXCEPT !.pc = "called", !.response = q.provider]
CallStep(q, model) ==
    LET c == [q EXCEPT !.calls = @ + 1, !.sent = model,
                       !.trace = Append(@, "call")]
    IN  IF q.provider.t = "error"
        THEN Raise(c, 500, "transport")
        ELSE [c EXCEPT !.pc = "called", !.response = q.provider]

\* json.loads(result) and ResumeScore(score=..., feedback=...): every
\* exception is caught and raised as HTTPException(500)
ValidateStep(q0) ==
    LET q == [q0 EXCEPT !.trace = Append(@, "validation")]
        r == q.response
    IN  IF r.t # "json" THEN Raise(q, 500, "notjson")
        ELSE IF r.score.t = "missing" \/ r.feedback.t = "missing"
        THEN Raise(q, 500, "shape")
        ELSE IF r.score.t # "int" \/ r.feedback.t # "dict"
        THEN Raise(q, 500, "shape")
        ELSE [q EXCEPT !.pc = "validated",
                       !.result = ResumeScore(r.score, r.feedback)]

Result(q, status, f) ==
    [q EXCEPT !.pc = "done",
              !.outcome = [kind |-> "result", status |-> status, cause |-> "",
                           score |-> q.result.score, feedback |-> f],
              !.trace = Append(@, "response")]

\* return await score_resume(resume_text): the ResumeScore as it is
RespondApi(q) == Result(q, 200, q.result.feedback)

\* the formatting part of gradio_score_resume: result.feedback[key] is read
\* and iterated for each of the three keys
RespondWidget(q) ==
    LET d == q.result.feedback.d
    IN  IF \A k \in FeedbackKeys : k \in DOMAIN d /\ d[k].t = "list"
        THEN Result(q, 0, Dict([k \in FeedbackKeys |-> d[k]]))
        ELSE Raise(q, 0, "shape")

(* ------------------------------ actions -------------------------------- *)

Requests == DOMAIN req

StepSharedText(r, q) ==
    /\ req' = [s \in DOMAIN req |->
                 IF s = r THEN q ELSE [req[s] EXCEPT !.text = q.text]]
    /\ UNCHANGED <<GROQ_API_KEY, LLM_MODEL, PdfReaderCtx>>
Step(r, q) ==
    /\ req' = [req EXCEPT ![r] = q]
    /\ UNCHANGED <<GROQ_API_KEY, LLM_MODEL, PdfReaderCtx>>

\* score_resume_api: resume_text = await extract_text_from_resume(file)
ApiExtract(r) ==
    /\ req[r].entry = "api" /\ req[r].pc = "received"
    /\ Step(r, ExtractApi(req[r], PdfReaderCtx))

\* gradio_score_resume: the branch on file_extension
WidgetExtract(r) ==
    /\ req[r].entry = "widget" /\ req[r].pc = "received"
    /\ Step(r, ExtractWidget(req[r]))

\* score_resume: if not GROQ_API_KEY: return the mock
ScoreMock(r) ==
    /\ req[r].pc = "extracted" /\ GROQ_API_KEY = ""
    /\ Step(r, MockStep(req[r]))

\* score_resume: prompt = f"""..."""
BuildPrompt(r) ==
    /\ req[r].pc = "extracted" /\ GROQ_API_KEY # ""
    /\ Step(r, PromptStep(req[r]))

\* score_resume: response = groq_client.chat.completions.create(...)
CallModel(r) ==
    /\ req[r].pc = "prompted"
    /\ Step(r, CallStep(req[r], LLM_MODEL))

\* score_resume: json.loads and the ResumeScore constructor
Validate(r) ==
    /\ req[r].pc = "called"
    /\ Step(r, ValidateStep(req[r]))

\* score_resume_api: return await score_resume(resume_text)
ApiRespond(r) ==
    /\ req[r].entry = "api" /\ req[r].pc = "validated"
    /\ Step(r, RespondApi(req[r]))

\* gradio_score_resume: format the feedback and return (score, text)
WidgetRespond(r) ==
    /\ req[r].entry = "widget" /\ req[r].pc = "validated"
    /\ Step(r, RespondWidget(req[r]))

Next ==
    \/ \E r \in Requests : ApiExtract(r)
    \/ \E r \in Requests : WidgetExtract(r)
    \/ \E r \in Requests : ScoreMock(r)
    \/ \E r \in Requests : BuildPrompt(r)
    \/ \E r \in Requests : CallModel(r)
    \/ \E r \in Requests : Validate(r)
    \/ \E r \in Requests : ApiRespond(r)
    \/ \E r \in Requests : WidgetRespond(r)

\* module level of app.py: the key is read from the environment once, the
\* model name is a literal
Config ==
    /\ GROQ_API_KEY \in {"", "gsk_key"}
    /\ LLM_MODEL = "meta-llama/llama-4-maverick-17b-128e-instruct"
    /\ PdfReaderCtx \in BOOLEAN

\* one request, any input
Init ==
    /\ Config
    /\ req \in [{1} -> { NewRequest(e, n, d, p) :
                            e \in Entries, n \in Names, d \in Docs, p \in Replies }]

Spec == Init /\ [][Next]_vars

\* the requests in flight together in the concurrent specification
ConcRequests ==
    { NewRequest("api", <<"a",".","t","x","t">>,
                 [bytes |-> <<65>>, container |-> "none", parts |-> <<>>],
                 Json(IntScore(82), FullFeedback)),
      NewRequest("widget", <<"a",".","t","x","t">>,
                 [bytes |-> <<65>>, container |-> "none", parts |-> <<>>],
                 Json(IntScore(82), PartialFeedback)),
      NewRequest("api", <<"a",".","p","d","f">>, PdfDoc, TransportFailure),
      NewRequest("widget", <<"a",".","D","o","c">>, DocxDoc,
                 Json(IntScore(150), FullFeedback)),
      NewRequest("api", <<"a",".","t","x","t">>,
                 [bytes |-> <<195>>, container |-> "none", parts |-> <<>>],
                 NotJson) }

InitConc ==
    /\ Config
    /\ req \in [1..NumRequests -> ConcRequests]

SpecConc == InitConc /\ [][Next]_vars

(* --------------------- a request run on its own ------------------------ *)

\* the request q carried from where it stands to its end, with no other
\* request in the process
RECURSIVE RunAlone(_, _, _, _)
RunAlone(q, key, model, ctx) ==
    CASE q.pc = "received" ->
           RunAlone(IF q.entry = "api" THEN ExtractApi(q, ctx) ELSE ExtractWidget(q),
                    key, model, ctx)
      [] q.pc = "extracted" ->
           RunAlone(IF key = "" THEN MockStep(q) ELSE PromptStep(q), key, model, ctx)
      [] q.pc = "prompted" -> RunAlone(CallStep(q, model), key, model, ctx)
      [] q.pc = "called" -> RunAlone(ValidateStep(q), key, model, ctx)
      [] q.pc = "validated" ->
           RunAlone(IF q.entry = "api" THEN RespondApi(q) ELSE RespondWidget(q),
                    key, model, ctx)
      [] OTHER -> q

AsSubmitted(q, entry) == NewRequest(entry, q.filename, q.doc, q.provider)

(* ------------------------------ properties ----------------------------- *)

HasDot(name) == \E i \in 1..Len(name) : name[i] = "."
\* the substring after the last '.' of a name that has one
AfterLastDot(name) ==
    LET i == CHOOSE k \in 1..Len(name) :
                 name[k] = "." /\ \A j \in (k+1)..Len(name) : name[j] # "."
    IN  SubSeq(name, i + 1, Len(name))
SameIgnoringCase(a, b) ==
    Len(a) = Len(b) /\ \A i \in 1..Len(a) : LowerChar(a[i]) = LowerChar(b[i])
Dispatched(q) == q.pc # "received"
ExtractionCauses == {"unsupported", "extraction", "decode"}
RankOf(step) ==
    CASE step = "extraction" -> 1 [] step = "prompt" -> 2 [] step = "call" -> 3
      [] step = "validation" -> 4 [] OTHER -> 5
\* str.encode("utf-8") for code points below 0x800
RECURSIVE Utf8Encode(_)
Utf8Encode(s) ==
    IF s = <<>> THEN <<>>
    ELSE (IF s[1] < 128 THEN <<s[1]>>
          ELSE <<192 + (s[1] \div 64), 128 + (s[1] % 64)>>) \o Utf8Encode(Tail(s))

\* the code points whose UTF-8 encoding is made of bytes that occur in Docs:
\* 'A', CR, U+00E9, and '%' and 'P' of the container files
CodePoints == {65, 13, 233, 37, 80}
IsValidUtf8(bytes) ==
    \E s \in UNION { [1..n -> CodePoints] : n \in 0..Len(bytes) } :
        Utf8Encode(s) = bytes
CompleteFeedback(f) ==
    /\ f.t = "dict"
    /\ DOMAIN f.d = FeedbackKeys
    /\ \A k \in FeedbackKeys : f.d[k].t = "list"

\* C1: a dispatched request whose name has an extension (the part after the
\* last '.', compared without regard to case) of pdf, docx/doc or txt has
\* selected the pdf, docx or txt extractor, the txt extractor yielding the
\* UTF-8 decoding of the bytes; with any other extension it has selected no
\* extractor and has ended with the unsupported-format error.
C1_DispatchByExtension ==
    \A r \in Requests :
        LET q == req[r] IN
        (Dispatched(q) /\ HasDot(q.filename)) =>
            LET e == AfterLastDot(q.filename) IN
            IF SameIgnoringCase(e, <<"p","d","f">>) THEN q.extractor = "pdf"
            ELSE IF SameIgnoringCase(e, <<"d","o","c","x">>)
                    \/ SameIgnoringCase(e, <<"d","o","c">>) THEN q.extractor = "docx"
            ELSE IF SameIgnoringCase(e, <<"t","x","t">>)
            THEN /\ q.extractor = "txt"
                 /\ q.pc = "extracted" =>
                        Utf8Decode(q.doc.bytes).ok
                        /\ q.text \in {Utf8Decode(q.doc.bytes).text,
                                       TranslateNewlines(Utf8Decode(q.doc.bytes).text)}
            ELSE /\ q.extractor = "none"
                 /\ q.pc = "done"
                 /\ q.outcome.kind = "error" /\ q.outcome.cause = "unsupported"

C1_Witness ==
    \E r \in Requests :
        /\ Dispatched(req[r])
        /\ req[r].filename = <<"a",".","x",".","T","X","T">>
        /\ req[r].extractor = "txt"

\* C2: a dispatched request whose name has no '.' has selected no extractor
\* and has ended with the unsupported-format error.
C2_NoExtensionRejected ==
    \A r \in Requests :
        (Dispatched(req[r]) /\ ~HasDot(req[r].filename)) =>
            /\ req[r].extractor = "none"
            /\ req[r].outcome.kind = "error"
            /\ req[r].outcome.cause = "unsupported"

\* C3: with no key configured no request ever calls the model service, and
\* whatever text was extracted, score_resume returns the mock: score 75, two
\* strengths, two weaknesses, three improvements.
C3_MockWithoutKey ==
    GROQ_API_KEY = "" =>
        \A r \in Requests :
            LET q == req[r] IN
            /\ q.calls = 0 /\ q.sent = "" /\ q.response = NoReply
            /\ q.pc \in {"received", "extracted", "validated", "done"}
            /\ (q.pc = "validated" \/ (q.pc = "done" /\ q.extractor # "none"
                                       /\ q.outcome.cause \notin ExtractionCauses)) =>
                  /\ q.result.t = "ResumeScore"
                  /\ q.result.score = IntScore(75)
                  /\ CompleteFeedback(q.result.feedback)
                  /\ Len(q.result.feedback.d["strengths"].items) = 2
                  /\ Len(q.result.feedback.d["weaknesses"].items) = 2
                  /\ Len(q.result.feedback.d["improvements"].items) = 3
            /\ q.pc = "done" =>
                  \/ q.outcome.kind = "error" /\ q.outcome.cause \in ExtractionCauses
                  \/ q.outcome.kind = "result" /\ q.outcome.score = IntScore(75)

C3_Witness ==
    /\ GROQ_API_KEY = ""
    /\ \E r \in Requests :
          /\ req[r].pc = "done" /\ req[r].outcome.kind = "result"
          /\ req[r].text = <<>>
          /\ req[r].provider.t = "json"

\* C4: the score of every result handed to a caller is an integer from 0
\* to 100.
C4_ScoreInRange ==
    \A r \in Requests :
        req[r].outcome.kind = "result" =>
            /\ req[r].outcome.score.t = "int"
            /\ req[r].outcome.score.n >= 0
            /\ req[r].outcome.score.n <= 100

\* C5: the feedback of every result handed to a caller holds the three keys
\* strengths, weaknesses and improvements, each a list of strings.
C5_NoPartialResult ==
    \A r \in Requests :
        req[r].outcome.kind = "result" => CompleteFeedback(req[r].outcome.feedback)

\* C6: a failed request of the HTTP endpoint has a 4xx status when the cause
\* is an extraction or a validation error and a 5xx status when the cause is
\* a failure of the call to the model service.
C6_ErrorClass ==
    \A r \in Requests :
        LET o == req[r].outcome IN
        (req[r].entry = "api" /\ o.kind = "error") =>
            /\ o.cause \in ExtractionCauses \cup {"notjson", "shape"} =>
                   (o.status >= 400 /\ o.status <= 499)
            /\ o.cause = "transport" => (o.status >= 500 /\ o.status <= 599)

C8_StepOrder ==
    \A r \in Requests :
        LET q == req[r] IN
        /\ \A i \in 1..(Len(q.trace) - 1) : RankOf(q.trace[i]) < RankOf(q.trace[i+1])
        /\ q.calls <= 1
        /\ Cardinality({i \in 1..Len(q.trace) : q.trace[i] = "call"}) = q.calls
        /\ q.calls = 1 =>
              /\ Len(q.trace) >= 3
              /\ SubSeq(q.trace, 1, 3) = <<"extraction", "prompt", "call">>
              /\ q.extractor # "none"
        /\ (q.outcome.kind = "error" /\ q.outcome.cause \in ExtractionCauses) =>
              q.calls = 0
        /\ (q.calls = 1 /\ q.provider.t = "error") =>
              /\ q.pc = "done"
              /\ q.outcome.kind = "error" /\ q.outcome.cause = "transport"
              /\ q.entry = "api" => q.outcome.status = 500
        /\ q.outcome.kind = "result" =>
              q.trace[Len(q.trace)] = "response"

C8_Witness ==
    \E r \in Requests :
        /\ req[r].calls = 1 /\ req[r].provider.t = "error"
        /\ req[r].pc = "done"

\* C9: at every moment every request in flight stands where it would stand,
\* and ends as it would end, had it run alone on its own name, bytes and
\* provider reply under the configured key; and no step changes the key or
\* the model name.
C9_Independence ==
    /\ [](\A r \in Requests :
            RunAlone(req[r], GROQ_API_KEY, LLM_MODEL, PdfReaderCtx)
              = RunAlone(AsSubmitted(req[r], req[r].entry),
                         GROQ_API_KEY, LLM_MODEL, PdfReaderCtx))
    /\ [][GROQ_API_KEY' = GROQ_API_KEY /\ LLM_MODEL' = LLM_MODEL]_vars

C9_Witness ==
    \E r1, r2 \in Requests :
        /\ r1 # r2
        /\ req[r1].pc = "done" /\ req[r1].calls = 1
        /\ req[r2].pc = "called"
        /\ req[r1].provider # req[r2].provider
        /\ req[r1].doc # req[r2].doc

\* C10: a finished request and the same upload put through the other entry
\* point (same name, bytes, key and provider reply) select the same
\* extractor and both end with a result, of the same score and the same
\* three lists, or both end with an error. Stated for a PdfReader that
\* supports the with statement, the build most favourable to the claim.
C10_SameOutcome ==
    \A r \in Requests :
        (req[r].pc = "done" /\ PdfReaderCtx) =>
            LET q == req[r]
                other == RunAlone(AsSubmitted(q, IF q.entry = "api" THEN "widget" ELSE "api"),
                                  GROQ_API_KEY, LLM_MODEL, PdfReaderCtx)
            IN  /\ other.extractor = q.extractor
                /\ other.outcome.kind = q.outcome.kind
                /\ q.outcome.kind = "result" =>
                      /\ other.outcome.score = q.outcome.score
                      /\ other.outcome.feedback = q.outcome.feedback

====
